---------------------------- MODULE Spec2Model ----------------------------
(***************************************************************************)
(* pyatop/structs/atop_230.py: the record layouts of the ATOP 2.30 raw log *)
(* format as ctypes structures, and the two methods of Header:             *)
(* check_compatibility and get_version.                                    *)
(*                                                                         *)
(* A ctypes type is modelled by the two numbers ctypes.sizeof and          *)
(* ctypes.alignment give for it.  A Structure without _pack_ is laid out   *)
(* with the native rule: every field starts at the next multiple of its    *)
(* alignment, the structure's alignment is the largest field alignment and *)
(* its size is the end of the last field rounded up to that alignment.     *)
(*                                                                         *)
(* A Python float made from a short decimal string is modelled by the      *)
(* decimal it denotes, [mant, exp] standing for mant / 10^exp in lowest    *)
(* terms of ten.  Two strings of at most three integer and three fraction  *)
(* digits denote the same double exactly when they denote the same         *)
(* decimal, so equality of the records is equality of the floats.          *)
(***************************************************************************)
EXTENDS Integers, Sequences, FiniteSets, TLC

VARIABLES
    atop_126,   \* the imported pyatop.structs.atop_126 module: its struct layouts
    sizeof,     \* ctypes.sizeof of Header, Record, SStat, TStat, fixed at class creation
    header,     \* the Header instance (self): the decoded field values
    version,    \* what the last get_version call returned, or NotCalled
    compat,     \* how the last check_compatibility call ended, or NotCalled
    pc,         \* position of the header decoder
    module,     \* the layout module the registry resolved, or NoModule
    err         \* the error the header decoder failed with, or NoError

vars == <<atop_126, sizeof, header, version, compat, pc, module, err>>

---------------------------------------------------------------------------
(* ctypes primitives, as on the LP64 platforms atop writes its logs on.    *)

Prim(n) == [size |-> n, align |-> n]

c_char == Prim(1)
c_ushort == Prim(2)
c_int == Prim(4)
c_uint == Prim(4)
c_float == Prim(4)
c_long == Prim(8)
c_ulong == Prim(8)
c_longlong == Prim(8)

(* ctype * n *)
Arr(t, n) == [size |-> t.size * n, align |-> t.align]

Max(a, b) == IF a >= b THEN a ELSE b

AlignUp(off, a) == ((off + a - 1) \div a) * a

(* The offset just after field n when fields 1..n are laid out in order.   *)
RECURSIVE EndOffset(_, _)
EndOffset(fields, n) ==
    IF n = 0 THEN 0
    ELSE AlignUp(EndOffset(fields, n - 1), fields[n].align) + fields[n].size

RECURSIVE MaxAlign(_, _)
MaxAlign(fields, n) ==
    IF n = 0 THEN 1 ELSE Max(MaxAlign(fields, n - 1), fields[n].align)

(* class X(ctypes.Structure) with _fields_ of these types, in order *)
Structure(fields) ==
    LET a == MaxAlign(fields, Len(fields))
    IN  [size |-> AlignUp(EndOffset(fields, Len(fields)), a), align |-> a]

(* n consecutive fields of one type *)
Rep(t, n) == [i \in 1..n |-> t]

---------------------------------------------------------------------------
(* Definitions from time.h, atop.h, photoproc.h, photosyst.h *)

time_t == c_long
count_t == c_longlong

PNAMLEN == 15
CMDLEN == 255

MAXCPU == 2048
MAXDSK == 1024
MAXLVM == 2048
MAXMDD == 256
MAXINTF == 128
MAXCONTAINER == 128
MAXNFSMOUNT == 64
MAXDKNAM == 32

---------------------------------------------------------------------------
(* The layouts.  A structure that embeds a layout of atop_126 takes the    *)
(* module m it is read from.                                               *)

UTSName(m) == m.UTSName

Header(m) ==
    Structure(<<c_uint>>
              \o Rep(c_ushort, 5)  \* aversion future1 future2 rawheadlen rawreclen
              \o <<c_ushort,       \* hertz
                   Arr(c_ushort, 6),
                   c_uint,         \* sstatlen
                   c_uint,         \* tstatlen
                   UTSName(m),
                   Arr(c_char, 8),
                   c_uint,         \* pagesize
                   c_int, c_int, c_int, c_int,
                   Arr(c_int, 6)>>)

Record ==
    Structure(<<time_t, c_ushort, Arr(c_ushort, 3)>>
              \o Rep(c_uint, 13)   \* scomplen .. noverflow
              \o <<Arr(c_uint, 6)>>)

MemStat == Structure(Rep(count_t, 23) \o <<Arr(count_t, 8)>>)

FreqCnt(m) == m.FreqCnt

PerCPU(m) ==
    Structure(<<c_int>> \o Rep(count_t, 9) \o <<FreqCnt(m), Arr(count_t, 4)>>)

CPUStat(m) ==
    Structure(Rep(count_t, 4)
              \o <<c_float, c_float, c_float, Arr(count_t, 4),
                   PerCPU(m), Arr(PerCPU(m), MAXCPU)>>)

PerDSK == Structure(<<Arr(c_char, MAXDKNAM)>> \o Rep(count_t, 6) \o <<Arr(count_t, 4)>>)

DSKStat ==
    Structure(<<c_int, c_int, c_int,
                Arr(PerDSK, MAXDSK), Arr(PerDSK, MAXMDD), Arr(PerDSK, MAXLVM)>>)

PerIntf ==
    Structure(<<Arr(c_char, 16)>>
              \o Rep(count_t, 8) \o <<Arr(count_t, 4)>>
              \o Rep(count_t, 8) \o <<Arr(count_t, 4)>>
              \o <<c_char, c_long, c_long, c_char, Arr(count_t, 4)>>)

IntfStat == Structure(<<c_int, Arr(PerIntf, MAXINTF)>>)

PerNFSMount == Structure(<<Arr(c_char, 128)>> \o Rep(count_t, 9) \o <<Arr(count_t, 8)>>)

Server == Structure(Rep(count_t, 15) \o <<Arr(count_t, 8)>>)

Client == Structure(Rep(count_t, 5) \o <<Arr(count_t, 8)>>)

NFSMounts == Structure(<<c_int, Arr(PerNFSMount, MAXNFSMOUNT)>>)

NFSStat == Structure(<<Server, Client, NFSMounts>>)

PerContainer == Structure(<<c_ulong, c_ulong>> \o Rep(count_t, 5))

ContStat == Structure(<<c_int, Arr(PerContainer, MAXCONTAINER)>>)

WWWStat(m) == m.WWWStat

NETStat(m) == m.NETStat

SStat(m) ==
    Structure(<<CPUStat(m), MemStat, NETStat(m), IntfStat, DSKStat, NFSStat,
                ContStat, WWWStat(m)>>)

GEN ==
    Structure(Rep(c_int, 12)
              \o <<Arr(c_char, PNAMLEN + 1), c_char, c_char, c_int, time_t, time_t,
                   Arr(c_char, CMDLEN + 1)>>
              \o Rep(c_int, 6)
              \o <<Arr(c_char, 16)>>)

CPU(m) == m.CPU

DSK(m) == m.DSK

MEM == Structure(Rep(count_t, 12) \o <<Arr(count_t, 4)>>)

NET == Structure(Rep(count_t, 10) \o <<Arr(count_t, 4)>>)

TStat(m) == Structure(<<GEN, CPU(m), DSK(m), MEM, NET>>)

---------------------------------------------------------------------------
(* pyatop.structs.atop_126 is imported, not defined here: which layouts it *)
(* holds is an input.  Two modules are considered, one with natural 8-byte *)
(* counters and byte strings, one whose structures are 4-byte aligned.     *)

Atop126Layouts ==
    { [UTSName |-> Arr(c_char, 390), FreqCnt |-> Arr(count_t, 3),
       WWWStat |-> Arr(count_t, 4),  NETStat |-> Arr(count_t, 139),
       CPU |-> Arr(count_t, 11),     DSK |-> Arr(count_t, 9)],
      [UTSName |-> Arr(c_uint, 99),  FreqCnt |-> Arr(c_int, 7),
       WWWStat |-> Arr(c_int, 7),    NETStat |-> Arr(c_int, 277),
       CPU |-> Arr(c_int, 21),       DSK |-> Arr(c_int, 17)] }

(* ctypes fixes a structure's size when its class is created.              *)
SizeOfAll(m) ==
    [Header |-> Header(m).size, Record |-> Record.size,
     SStat |-> SStat(m).size,   TStat |-> TStat(m).size]

---------------------------------------------------------------------------
(* Integer operators of Python on non-negative integers.                   *)

shr(x, n) == x \div (2 ^ n)

RECURSIVE and(_, _)
and(x, y) ==
    IF x = 0 \/ y = 0 THEN 0
    ELSE (x % 2) * (y % 2) + 2 * and(x \div 2, y \div 2)

(* str(n), the characters of the f-string replacement field {n} *)
Digit == <<"0", "1", "2", "3", "4", "5", "6", "7", "8", "9">>

HexDigit == Digit \o <<"a", "b", "c", "d", "e", "f">>

(* as str, in base 16: the replacement field {n:x} *)
RECURSIVE str_hex(_)
str_hex(n) ==
    IF n < 16 THEN <<HexDigit[n + 1]>> ELSE str_hex(n \div 16) \o <<HexDigit[(n % 16) + 1]>>

RECURSIVE str(_)
str(n) == IF n < 10 THEN <<Digit[n + 1]>> ELSE str(n \div 10) \o <<Digit[(n % 10) + 1]>>

IsDigit(c) == \E d \in 1..10 : Digit[d] = c

DigitVal(c) == (CHOOSE d \in 1..10 : Digit[d] = c) - 1

RECURSIVE int(_)
int(s) == IF s = <<>> THEN 0 ELSE 10 * int(SubSeq(s, 1, Len(s) - 1)) + DigitVal(s[Len(s)])

(* mant / 10^exp without trailing zeros in the fraction *)
RECURSIVE Norm(_, _)
Norm(mant, exp) ==
    IF exp > 0 /\ mant % 10 = 0 THEN Norm(mant \div 10, exp - 1)
    ELSE [mant |-> mant, exp |-> exp]

ValueError == [exc |-> "ValueError"]

(* float(s) for a string of digits and points: the decimal it denotes, or  *)
(* ValueError when s is not digits "." digits with a digit somewhere.      *)
float(s) ==
    LET dots == {i \in 1..Len(s) : s[i] = "."}
    IN  IF /\ Cardinality(dots) = 1
           /\ \A i \in 1..Len(s) : s[i] = "." \/ IsDigit(s[i])
           /\ Len(s) > 1
        THEN LET d == CHOOSE i \in dots : TRUE
                 ip == SubSeq(s, 1, d - 1)
                 fp == SubSeq(s, d + 1, Len(s))
             IN  Norm(int(ip) * (10 ^ Len(fp)) + int(fp), Len(fp))
        ELSE ValueError

---------------------------------------------------------------------------
(* Header.get_version and Header.check_compatibility                       *)

(* the major number with the top bit of aversion left in *)
major_unmasked(self) == shr(self.aversion, 8)

major(self) == and(shr(self.aversion, 8), 127)

minor(self) == and(self.aversion, 255)

(* the version composed as major + minor / 100 *)
get_version_hundredths(self) == Norm(major(self) * 100 + minor(self), 2)

get_version(self) == float(str(major(self)) \o <<".">> \o str(minor(self)))

(* the comparisons with sstatlen and tstatlen paired the wrong way round *)
compatible_swapped(self, sz) ==
    << self.sstatlen = sz.TStat,
       self.tstatlen = sz.SStat,
       self.rawheadlen = sz.Header,
       self.rawreclen = sz.Record >>

(* the comparisons stopped at the first mismatch: later entries stay True *)
compatible_short_circuit(self, sz) ==
    LET a == self.sstatlen = sz.SStat
        b == ~a \/ self.tstatlen = sz.TStat
        c == ~(a /\ b) \/ self.rawheadlen = sz.Header
        d == ~(a /\ b /\ c) \/ self.rawreclen = sz.Record
    IN  <<a, b, c, d>>

(* the list the method builds: one comparison per length field *)
compatible(self, sz) ==
    << self.sstatlen = sz.SStat,
       self.tstatlen = sz.TStat,
       self.rawheadlen = sz.Header,
       self.rawreclen = sz.Record >>

any(bs) == \E i \in 1..Len(bs) : bs[i]

all(bs) == \A i \in 1..Len(bs) : bs[i]

Returned == [outcome |-> "returned"]

IncompatibleMsg == "File has incompatible atop format. Struct length evaluations: "

(* how the call ends: it returns None, or raises ValueError(msg + list) *)
check_compatibility(self, sz) ==
    IF ~all(compatible(self, sz))
    THEN [outcome |-> "raised", exc |-> "ValueError", msg |-> IncompatibleMsg,
          evaluations |-> compatible(self, sz)]
    ELSE Returned

---------------------------------------------------------------------------
(* The header decoder around the two methods: magic, version, registry,    *)
(* size validation, in that order.                                         *)

(* the format identifier 0xfeedbeef as its two 16-bit halves *)
MAGIC == <<65261, 48879>>

ATOP_126 == "atop_126"
ATOP_230 == "atop_230"

(* version -> layout module; 1.26 and 2.3 are the generations next to this file *)
Registry ==
    [v \in {float(<<"1", ".", "2", "6">>), float(<<"2", ".", "3">>)} |->
        IF v = float(<<"2", ".", "3">>) THEN ATOP_230 ELSE ATOP_126]

InvalidMagicError == "InvalidMagicError"
UnsupportedVersionError == "UnsupportedVersionError"
IncompatibleFormatError == "IncompatibleFormatError"

magic_unchecked(self) == TRUE

magic_ok(self) == self.magic = MAGIC

resolve(v) == IF v \in DOMAIN Registry THEN Registry[v] ELSE UnsupportedVersionError

---------------------------------------------------------------------------
(* The headers considered.                                                 *)

NotCalled == [outcome |-> "not called"]
NoModule == "no module"
NoError == "no error"

LenSlack == 1

(* the values of an unsigned field of the given ctype that lie near n *)
Near(n, t) ==
    {x \in (n - LenSlack)..(n + LenSlack) : x >= 0 /\ (t.size = 2 => x < 2 ^ 16)}

(* packed versions 1.26, 2.3, 2.30, 2.3 with the top bit set, all ones *)
AversionSamples == {282, 515, 542, 33283, 65535}

(* the fields no method reads, in two variants *)
Rest ==
    { [future1 |-> 0, future2 |-> 0, hertz |-> 100, sfuture |-> <<0, 0, 0, 0, 0, 0>>,
       utsname |-> "Linux host-a", cfuture |-> "", pagesize |-> 4096,
       supportflags |-> 0, osrel |-> 3, osvers |-> 10, ossub |-> 0,
       ifuture |-> <<0, 0, 0, 0, 0, 0>>],
      [future1 |-> 1, future2 |-> 2, hertz |-> 250, sfuture |-> <<1, 0, 0, 0, 0, 7>>,
       utsname |-> "Linux host-b", cfuture |-> "x", pagesize |-> 65536,
       supportflags |-> 5, osrel |-> 4, osvers |-> 4, ossub |-> 1,
       ifuture |-> <<0, 0, 9, 0, 0, 0>>] }

HeaderOf(mg, av, hl, rl, sl, tl, r) ==
    [magic |-> mg, aversion |-> av, future1 |-> r.future1, future2 |-> r.future2,
     rawheadlen |-> hl, rawreclen |-> rl, hertz |-> r.hertz, sfuture |-> r.sfuture,
     sstatlen |-> sl, tstatlen |-> tl, utsname |-> r.utsname, cfuture |-> r.cfuture,
     pagesize |-> r.pagesize, supportflags |-> r.supportflags, osrel |-> r.osrel,
     osvers |-> r.osvers, ossub |-> r.ossub, ifuture |-> r.ifuture]

(* every combination of length fields near the compiled sizes, right and wrong magic *)
ForgedHeaders(sz) ==
    { HeaderOf(mg, av, hl, rl, sl, tl, r) :
        mg \in {MAGIC, <<65261, 48880>>}, av \in AversionSamples,
        hl \in Near(sz.Header, c_ushort), rl \in Near(sz.Record, c_ushort),
        sl \in Near(sz.SStat, c_uint), tl \in Near(sz.TStat, c_uint), r \in Rest }

(* every 16-bit aversion in an otherwise valid header *)
VersionHeaders(sz) ==
    { HeaderOf(MAGIC, av, sz.Header, sz.Record, sz.SStat, sz.TStat,
               CHOOSE r \in Rest : r.hertz = 100) :
        av \in 0..(2 ^ (8 * c_ushort.size) - 1) }

---------------------------------------------------------------------------
(* The state machine: the module is imported, a header is decoded, and the *)
(* methods are called on it.                                               *)

Loaded(headers) ==
    /\ atop_126 \in Atop126Layouts
    /\ sizeof = SizeOfAll(atop_126)
    /\ header \in headers
    /\ version = NotCalled
    /\ compat = NotCalled
    /\ pc = "decoded"
    /\ module = NoModule
    /\ err = NoError

Init == Loaded(ForgedHeaders(sizeof) \cup VersionHeaders(sizeof))

(* get_version storing the masked version back into the header *)
GetVersion_masking ==
    /\ version' = get_version(header)
    /\ header' = [header EXCEPT !.aversion = and(@, 32767)]
    /\ UNCHANGED <<atop_126, sizeof, compat, pc, module, err>>

(* header.get_version() *)
GetVersion ==
    /\ version' = get_version(header)
    /\ UNCHANGED <<atop_126, sizeof, header, compat, pc, module, err>>

(* header.check_compatibility() *)
CheckCompatibility ==
    /\ compat' = check_compatibility(header, sizeof)
    /\ UNCHANGED <<atop_126, sizeof, header, version, pc, module, err>>

Next == GetVersion \/ CheckCompatibility

Spec == Init /\ [][Next]_vars

---------------------------------------------------------------------------
(* decode_header step by step                                              *)

InitDecode == Loaded(ForgedHeaders(sizeof))

CheckMagic ==
    /\ pc = "decoded"
    /\ IF magic_ok(header)
       THEN pc' = "magic_ok" /\ err' = err
       ELSE pc' = "failed" /\ err' = InvalidMagicError
    /\ UNCHANGED <<atop_126, sizeof, header, version, compat, module>>

ExtractVersion ==
    /\ pc = "magic_ok"
    /\ version' = get_version(header)
    /\ pc' = "versioned"
    /\ UNCHANGED <<atop_126, sizeof, header, compat, module, err>>

Resolve ==
    /\ pc = "versioned"
    /\ IF resolve(version) = UnsupportedVersionError
       THEN pc' = "failed" /\ err' = UnsupportedVersionError /\ module' = module
       ELSE pc' = "resolved" /\ module' = resolve(version) /\ err' = err
    /\ UNCHANGED <<atop_126, sizeof, header, version, compat>>

(* validation against this generation's sizes *)
Validate230 ==
    /\ pc = "resolved"
    /\ module = ATOP_230
    /\ compat' = check_compatibility(header, sizeof)
    /\ IF compat' = Returned
       THEN pc' = "accepted" /\ err' = err
       ELSE pc' = "failed" /\ err' = IncompatibleFormatError
    /\ UNCHANGED <<atop_126, sizeof, header, version, module>>

(* validation by the 1.26 generation, whose sizes are not known here *)
Validate126 ==
    /\ pc = "resolved"
    /\ module = ATOP_126
    /\ \E ok \in BOOLEAN :
          IF ok THEN pc' = "accepted" /\ err' = err
                ELSE pc' = "failed" /\ err' = IncompatibleFormatError
    /\ UNCHANGED <<atop_126, sizeof, header, version, compat, module>>

NextDecode == CheckMagic \/ ExtractVersion \/ Resolve \/ Validate230 \/ Validate126

SpecDecode == InitDecode /\ [][NextDecode]_vars

---------------------------------------------------------------------------
(* Properties                                                              *)

MajorOf(av) == (av \div 256) % 128
MinorOf(av) == av % 256

SstatOk == header.sstatlen = sizeof.SStat
TstatOk == header.tstatlen = sizeof.TStat
HeadOk == header.rawheadlen = sizeof.Header
RecOk == header.rawreclen = sizeof.Record

(* C1: check_compatibility returns without raising exactly when sstatlen,  *)
(* tstatlen, rawheadlen and rawreclen equal the sizes of SStat, TStat,     *)
(* Header and Record; with any of the four differing it raises.            *)
C1_AcceptsIffAllFourSizesMatch ==
    compat # NotCalled =>
        /\ (compat = Returned) <=> (SstatOk /\ TstatOk /\ HeadOk /\ RecOk)
        /\ (compat # Returned) => compat.outcome = "raised"

C1_Witness_AllFourDiffer ==
    compat.outcome = "raised" /\ ~SstatOk /\ ~TstatOk /\ ~HeadOk /\ ~RecOk

(* C2: a header whose sstatlen is the size of SStat plus one, the other    *)
(* three lengths being right, ends check_compatibility with the            *)
(* incompatible-format error (the ValueError with that message) only.      *)
C2_ForgedSstatlenIsIncompatible ==
    (compat # NotCalled /\ header.sstatlen = sizeof.SStat + 1
        /\ TstatOk /\ HeadOk /\ RecOk) =>
        /\ compat.outcome = "raised"
        /\ compat.exc = "ValueError"
        /\ compat.msg = IncompatibleMsg

C2_Witness_ForgedSstatlen ==
    /\ compat.outcome = "raised"
    /\ header.sstatlen = sizeof.SStat + 1
    /\ TstatOk /\ HeadOk /\ RecOk

(* C3: the error of check_compatibility carries four results in the order  *)
(* sstatlen, tstatlen, rawheadlen, rawreclen, each false exactly when that *)
(* field differs from its compiled size, whatever the earlier ones were.   *)
C3_ErrorNamesEveryMismatch ==
    compat.outcome = "raised" =>
        /\ Len(compat.evaluations) = 4
        /\ compat.evaluations[1] = SstatOk
        /\ compat.evaluations[2] = TstatOk
        /\ compat.evaluations[3] = HeadOk
        /\ compat.evaluations[4] = RecOk

C3_Witness_TwoMismatches ==
    /\ compat.outcome = "raised"
    /\ compat.evaluations = <<FALSE, TRUE, FALSE, TRUE>>

Flip15(av) == IF av >= 32768 THEN av - 32768 ELSE av + 32768

(* C4: get_version uses major = (aversion >> 8) & 0x7f and minor =         *)
(* aversion & 0xff: bit 15 of aversion does not change the result, and no  *)
(* other field of the header does.                                         *)
C4_VersionFromLow15Bits ==
    version # NotCalled =>
        /\ version = float(str(MajorOf(header.aversion)) \o <<".">>
                           \o str(MinorOf(header.aversion)))
        /\ get_version([header EXCEPT !.aversion = Flip15(@)]) = version
        /\ \A r \in Rest :
              get_version(HeaderOf(<<0, 0>>, header.aversion, 0, 0, 0, 0, r)) = version

C4_Witness_TopBitSet ==
    version # NotCalled /\ header.aversion >= 32768 /\ header.hertz = 250

DigitsOf(n) == IF n < 10 THEN 1 ELSE IF n < 100 THEN 2 ELSE 3

(* C5 as claimed: the version is major + minor/100 for every aversion.     *)
C5_Claimed_MajorPlusMinorHundredths ==
    version # NotCalled =>
        version = Norm(MajorOf(header.aversion) * 100 + MinorOf(header.aversion), 2)

(* C5 as amended: the version is major + minor/10^d, d the number of       *)
(* decimal digits of minor; that is major + minor/100 exactly when minor   *)
(* is 0 or has two digits.                                                 *)
C5_MajorPlusMinorOverItsDigits ==
    version # NotCalled =>
        LET mj == MajorOf(header.aversion)
            mn == MinorOf(header.aversion)
        IN  /\ version = Norm(mj * (10 ^ DigitsOf(mn)) + mn, DigitsOf(mn))
            /\ (version = Norm(mj * 100 + mn, 2)) <=> (mn = 0 \/ DigitsOf(mn) = 2)

C5_Witness_SingleDigitMinor ==
    version # NotCalled /\ MinorOf(header.aversion) = 3 /\ MajorOf(header.aversion) = 2

(* C6: neither method changes a field of the header, and a repeated call   *)
(* of either, in any order, ends as the earlier one did.                   *)
C6_MethodsLeaveHeaderAndRepeat ==
    [][ /\ header' = header
        /\ (version # NotCalled => version' = version)
        /\ (compat # NotCalled => compat' = compat) ]_vars

C6_Witness_BothCalled ==
    version # NotCalled /\ compat.outcome = "raised"

VersionOf == [av \in 0..32767 |-> get_version([aversion |-> av])]

(* C8: two aversions with different (major, minor) never give the same     *)
(* version.                                                                *)
C8_Claimed_VersionInjective ==
    version # NotCalled =>
        \A av \in DOMAIN VersionOf :
            <<MajorOf(av), MinorOf(av)>>
                # <<MajorOf(header.aversion), MinorOf(header.aversion)>> =>
                    VersionOf[av] # version

(* C9: get_version returns, for every aversion, a non-negative number      *)
(* whose integer part is the major number 0..127, and never raises;        *)
(* check_compatibility either returns or raises the incompatible-format    *)
(* error.                                                                  *)
C9_MethodsTotal ==
    /\ version # NotCalled =>
        /\ version # ValueError
        /\ DOMAIN version = {"mant", "exp"}
        /\ version.mant >= 0 /\ version.exp \in 0..3
        /\ version.mant \div (10 ^ version.exp) = MajorOf(header.aversion)
        /\ MajorOf(header.aversion) \in 0..127
    /\ compat # NotCalled =>
        \/ compat = Returned
        \/ /\ compat.outcome = "raised"
           /\ compat.exc = "ValueError"
           /\ compat.msg = IncompatibleMsg

C9_Witness_AllOnesHeader ==
    /\ header.aversion = 65535
    /\ version = [mant |-> 127255, exp |-> 3]
    /\ compat.outcome = "raised"

=============================================================================
